---- MODULE Spec2Model ----
(***************************************************************************)
(* Model of the authoritative game server (src/server.js): the player      *)
(* table, the bullet table, the score map, the expiry timers and the       *)
(* messages each handler emits.  Every handler runs to completion, so each *)
(* handler is one action.  The clients (src/public/game.js) are modelled   *)
(* by their socket handlers, their bullet list and their mirror of the     *)
(* remote players, with the messages in flight in both directions.         *)
(***************************************************************************)
EXTENDS Integers, Sequences, FiniteSets, TLC

(* ------------------------------------------------------------------ *)
(* Program constants                                                   *)
(* ------------------------------------------------------------------ *)
MAX_HEALTH == 100
MAX_SCORE == 3
HIT_DAMAGE == 10
BULLET_TTL == 3000
SELF_HIT_COOLDOWN == 500
MAX_BULLETS == 100
BULLET_LIFETIME == 3000
GAME_RESET_DELAY == 3000
COLLISION_DEBOUNCE == 500

SPAWN_POSITIONS ==
    << [x |-> -10, y |-> 2, z |-> 0],
       [x |-> 10, y |-> 2, z |-> 0] >>

(* ------------------------------------------------------------------ *)
(* Bounds of the model                                                 *)
(* ------------------------------------------------------------------ *)
\* number of connections the server accepts in a run (socket ids 1..MaxConns)
MaxConns == 2
\* number of expiry timers pending at once
MaxTimers == 1
\* hits a player takes in the general specification (no elimination there)
MaxDamage == 1
\* largest score an attacker is credited with in the elimination specification
ElimCredit == 2
\* largest score an attacker is credited with in the match specification
MatchCredit == 4
\* largest score an attacker is credited with in the duel specification
DuelCredit == 3
\* bullets a client holds at once in the client specification
MaxLocal == 2
\* events of one client in flight to the server at once
MaxFlight == 1
\* messages waiting at one client at once
MaxInbox == 2
\* bullets in flight or awaiting expiry at once in the client specification
MaxShots == 2
\* clients that fire in the client specification (every client claims hits)
MaxShooters == 1
\* connections the server accepts beyond MaxConns in the rejoin specification
MaxRejoins == 1
\* collision events in the queue of the physics world in one frame
MaxContacts == 1
\* the reading of Date.now() at the start of a run
Epoch == 500
\* bits of the significand of a floating-point number of the model
Precision == 6
\* a floating-point number is a multiple of 2^-FractionBits
FractionBits == 7
\* the angular velocities of the clamp specification: up to MaxAxis steps
\* of 0.75 rad/s on each axis
MaxAxis == 7

SocketIds == 1..MaxConns
\* the ids a claim can name as attacker: 0 is the id of no socket
AttackerIds == 0..MaxConns

\* the clock readings (Date.now(), ms) at which handlers run
Times == {0, 1, 600, BULLET_TTL, BULLET_TTL + 1}
\* the last clock reading of a run
LastTime == BULLET_TTL + 1

\* the bullet ids `${playerId}-${Date.now()}`
BulletIds == SocketIds \X Times

\* position / rotation payloads a client reports in updatePosition
MovedPosition == [x |-> 0, y |-> 2, z |-> 5]
MovedRotation == [x |-> 0, y |-> 1, z |-> 0]
MovePayloads == {[position |-> MovedPosition, rotation |-> MovedRotation]}

\* position / velocity a client reports in createBullet
MuzzlePosition == [x |-> 0, y |-> 3, z |-> 5]
MuzzleVelocity == [x |-> 0, y |-> 0, z |-> 100]

VARIABLES
    players,        \* players{}: socket id -> player record
    bullets,        \* bullets{}: bullet id -> bullet record
    playerScores,   \* playerScores Map, in insertion order: Seq of [id, score]
    gameState,      \* gameState: [scores, playerCount]
    timers,         \* bullet ids with a pending setTimeout expiry callback
                    \* (callbacks set for one id are due together and all but
                    \* the first find no record, so a set holds them)
    now,            \* Date.now() on the server
    nextId,         \* the socket id the next connection gets
    out,            \* messages emitted by the last handler, in order
    grants,         \* history: hit claims granted on the record stored under an id
    gameOvers,      \* history: number of gameOver broadcasts naming an attacker
    inbox,          \* client -> messages sent to it that it has not handled yet
    uplink,         \* client -> events it emitted that the server has not handled yet
    localBullets,   \* client -> bullets[] of game.js: Seq of [id, owner, spawnTime]
    otherPlayers,   \* client -> otherPlayers{} of game.js: id -> "temporary" | "loaded"
    loading,        \* client -> ids whose loader.load callback is pending
    stamps,         \* history: stored bullet id -> the id in the payload of the
                    \* createBullet event that stored the record
    departed,       \* history: client -> the ids whose playerLeft message it
                    \* has processed
    bulletCooldowns, \* client -> bulletCooldowns Map of game.js: id -> the
                    \* time at which the self-hit cooldown ends
    isReadyToShoot, \* client -> loadCar has set car, carBodyHandle and the flag
    carControls,    \* client -> carControls of game.js: [space]
    angvel,         \* client -> angular velocity of the body of its car
    playerScore,    \* client -> the score it displays as its own
    otherPlayerScore, \* client -> the score it displays as the other player's
    resetTimers,    \* client -> the times at which its pending setTimeout
                    \* callbacks of gameOver are due
    car,            \* CarController.car: [mesh, rigidBodyHandle, speed,
                    \* maxSpeed, acceleration]
    keys,           \* CarController.keys: [w, s]
    lastCollisionTime, \* CarController.lastCollisionTime
    penalties       \* history: the speed penalties the controller applied,
                    \* in order: Seq of [kind, time]

serverVars == <<players, bullets, playerScores, gameState, timers, now, nextId,
                out, grants, gameOvers>>

carVars == <<isReadyToShoot, carControls, angvel>>

hudVars == <<playerScore, otherPlayerScore, resetTimers>>

ctrlVars == <<car, keys, lastCollisionTime, penalties>>

clientVars == <<inbox, uplink, localBullets, otherPlayers, loading, stamps,
                departed, bulletCooldowns, carVars, hudVars, ctrlVars>>

vars == <<serverVars, clientVars>>

(* ------------------------------------------------------------------ *)
(* JavaScript objects and Maps                                         *)
(* ------------------------------------------------------------------ *)
EmptyObj == [k \in {} |-> 0]

Put(f, k, v) == [x \in (DOMAIN f) \cup {k} |-> IF x = k THEN v ELSE f[x]]

Del(f, k) == [x \in (DOMAIN f) \ {k} |-> f[x]]

\* Map.has on a Map kept as a sequence of entries
MapHas(m, k) == \E i \in 1..Len(m) : m[i].id = k

\* Map.get(k) || 0
MapGetOr0(m, k) ==
    IF MapHas(m, k)
    THEN (CHOOSE e \in {m[i] : i \in 1..Len(m)} : e.id = k).score
    ELSE 0

\* faulty variant: the Map is replaced by the one entry
MapSetOnly(m, k, v) == << [id |-> k, score |-> v] >>

\* Map.set: an existing key keeps its place, a new key is appended
MapSet(m, k, v) ==
    IF MapHas(m, k)
    THEN [i \in 1..Len(m) |-> IF m[i].id = k THEN [id |-> k, score |-> v] ELSE m[i]]
    ELSE Append(m, [id |-> k, score |-> v])

\* Array.from(playerScores.entries()).map(([id, score]) => ({id, score}))
ScoreArray(m) == [i \in 1..Len(m) |-> [id |-> m[i].id, score |-> m[i].score]]

Msg(ev, to, data) == [ev |-> ev, to |-> to, data |-> data]

\* a floating-point number is an integer of units of 2^-FractionBits
Unit == 2 ^ FractionBits

\* no rigid body: the value of car.rigidBodyHandle before load
NoHandle == 0 - 1

\* this.car of the constructor of CarController
NewCar ==
    [mesh |-> FALSE, rigidBodyHandle |-> NoHandle, speed |-> 0,
     maxSpeed |-> 30 * Unit, acceleration |-> 20 * Unit]

(* ------------------------------------------------------------------ *)
(* Initial state: the module-level declarations                        *)
(* ------------------------------------------------------------------ *)
Init ==
    /\ players = EmptyObj
    /\ bullets = EmptyObj
    /\ playerScores = <<>>
    /\ gameState = [scores |-> EmptyObj, playerCount |-> 0]
    /\ timers = {}
    /\ now = 0
    /\ nextId = 1
    /\ out = <<>>
    /\ grants = EmptyObj
    /\ gameOvers = [a \in AttackerIds |-> 0]
    /\ inbox = [c \in SocketIds |-> <<>>]
    /\ uplink = [c \in SocketIds |-> <<>>]
    /\ localBullets = [c \in SocketIds |-> <<>>]
    /\ otherPlayers = [c \in SocketIds |-> EmptyObj]
    /\ loading = [c \in SocketIds |-> {}]
    /\ stamps = EmptyObj
    /\ departed = [c \in SocketIds |-> {}]
    /\ bulletCooldowns = [c \in SocketIds |-> EmptyObj]
    /\ isReadyToShoot = [c \in SocketIds |-> FALSE]
    /\ carControls = [c \in SocketIds |-> [space |-> FALSE]]
    /\ angvel = [c \in SocketIds |-> [x |-> 0, y |-> 0, z |-> 0]]
    /\ playerScore = [c \in SocketIds |-> 0]
    /\ otherPlayerScore = [c \in SocketIds |-> 0]
    /\ resetTimers = [c \in SocketIds |-> {}]
    /\ car = NewCar
    /\ keys = [w |-> FALSE, s |-> FALSE]
    /\ lastCollisionTime = 0
    /\ penalties = <<>>

(* ------------------------------------------------------------------ *)
(* io.on("connection")                                                 *)
(* ------------------------------------------------------------------ *)
SpawnIndex(table) == Cardinality(DOMAIN table) % Len(SPAWN_POSITIONS)

\* faulty variant: the new player starts one hit short of full health
WoundedPlayer(playerId, spawnIndex) ==
    [id |-> playerId,
     position |-> SPAWN_POSITIONS[spawnIndex + 1],
     rotation |-> [x |-> 0, y |-> 0, z |-> 0],
     health |-> MAX_HEALTH - HIT_DAMAGE,
     score |-> 0,
     spawnIndex |-> spawnIndex]

NewPlayer(playerId, spawnIndex) ==
    [id |-> playerId,
     position |-> SPAWN_POSITIONS[spawnIndex + 1],
     rotation |-> [x |-> 0, y |-> 0, z |-> 0],
     health |-> MAX_HEALTH,
     score |-> 0,
     spawnIndex |-> spawnIndex]

\* the handler, for a server that accepts cap connections in a run
connectionWithin(cap) ==
    /\ nextId <= cap
    /\ LET playerId == nextId
           spawnIndex == SpawnIndex(players)
           table == Put(players, playerId, NewPlayer(playerId, spawnIndex))
           count == gameState.playerCount + 1
       IN /\ players' = table
          /\ gameState' = [scores |-> Put(gameState.scores, playerId, 0),
                           playerCount |-> count]
          /\ playerScores' = MapSet(playerScores, playerId, 0)
          /\ out' = << Msg("initialize", {playerId},
                           [id |-> playerId, players |-> table,
                            position |-> SPAWN_POSITIONS[spawnIndex + 1],
                            health |-> MAX_HEALTH, score |-> 0,
                            playerCount |-> count]),
                       Msg("playerJoined", (DOMAIN table) \ {playerId},
                           table[playerId]),
                       Msg("playerCountUpdate", DOMAIN table, count) >>
          /\ nextId' = nextId + 1
    /\ UNCHANGED <<bullets, timers, now, grants, gameOvers>>

connection == connectionWithin(MaxConns)

(* ------------------------------------------------------------------ *)
(* socket.on("updatePosition")                                         *)
(* ------------------------------------------------------------------ *)
\* faulty variant: io.emit in place of socket.broadcast.emit
updatePositionEcho(playerId, data) ==
    /\ playerId \in DOMAIN players
    /\ players' = [players EXCEPT ![playerId].position = data.position,
                                  ![playerId].rotation = data.rotation]
    /\ out' = << Msg("playerMoved", DOMAIN players,
                     [id |-> playerId, position |-> data.position,
                      rotation |-> data.rotation]),
                 Msg("playerMoved", DOMAIN players,
                     [id |-> playerId, position |-> data.position,
                      rotation |-> data.rotation, timestamp |-> now]) >>
    /\ UNCHANGED <<bullets, playerScores, gameState, timers, now, nextId,
                   grants, gameOvers>>

updatePosition(playerId, data) ==
    /\ playerId \in DOMAIN players
    /\ players' = [players EXCEPT ![playerId].position = data.position,
                                  ![playerId].rotation = data.rotation]
    /\ out' = << Msg("playerMoved", (DOMAIN players) \ {playerId},
                     [id |-> playerId, position |-> data.position,
                      rotation |-> data.rotation]),
                 Msg("playerMoved", (DOMAIN players) \ {playerId},
                     [id |-> playerId, position |-> data.position,
                      rotation |-> data.rotation, timestamp |-> now]) >>
    /\ UNCHANGED <<bullets, playerScores, gameState, timers, now, nextId,
                   grants, gameOvers>>

(* ------------------------------------------------------------------ *)
(* socket.on("createBullet") and its expiry timer                      *)
(* ------------------------------------------------------------------ *)
ServerBulletId(playerId, t) == <<playerId, t>>

createBullet(playerId, data) ==
    /\ playerId \in DOMAIN players
    /\ LET bulletId == ServerBulletId(playerId, now)
           record == [id |-> bulletId, position |-> data.position,
                      velocity |-> data.velocity, owner |-> playerId]
       IN /\ bullets' = Put(bullets, bulletId, record)
          /\ out' = << Msg("bulletCreated", DOMAIN players, record) >>
          /\ timers' = timers \cup {bulletId}
          /\ grants' = Put(grants, bulletId, 0)
    /\ UNCHANGED <<players, playerScores, gameState, now, nextId, gameOvers>>

\* faulty variant: the timer is set for 0 ms
DueAtOnce(bulletId) == bulletId[2]

\* the time at which the timer set for a bullet id is due
ExpiryDue(bulletId) == bulletId[2] + BULLET_TTL

expireBullet(bulletId) ==
    /\ bulletId \in timers
    /\ now >= ExpiryDue(bulletId)
    /\ timers' = timers \ {bulletId}
    /\ grants' = Del(grants, bulletId)
    /\ IF bulletId \in DOMAIN bullets
       THEN /\ bullets' = Del(bullets, bulletId)
            /\ out' = << Msg("bulletRemoved", DOMAIN players, bulletId) >>
       ELSE /\ bullets' = bullets
            /\ out' = <<>>
    /\ UNCHANGED <<players, playerScores, gameState, now, nextId, gameOvers>>

(* ------------------------------------------------------------------ *)
(* socket.on("bulletHit")                                              *)
(* ------------------------------------------------------------------ *)
\* faulty variant: the bullet lookup is left out of the guard
TargetOnly(data) == data.hitPlayerId \in DOMAIN players

\* line 120: the claim names a stored bullet and a player in the table
ValidClaim(data) ==
    /\ data.bulletId \in DOMAIN bullets
    /\ data.hitPlayerId \in DOMAIN players

\* faulty variant: the granted claim leaves the record in the table
BulletsKept(table, data) == table

\* faulty variant: the record is deleted before the target is looked up
BulletsAnyTarget(table, data) ==
    IF data.bulletId \in DOMAIN table THEN Del(table, data.bulletId) ELSE table

\* lines 120-122: the bullet table after the handler has run
BulletsAfterHit(table, data) ==
    IF ValidClaim(data) THEN Del(table, data.bulletId) ELSE table

\* faulty variant: the damage is applied twice
DoubleDamage(h) == h - 2 * HIT_DAMAGE

\* line 126
DamagedHealth(h) == h - HIT_DAMAGE

\* line 135
Eliminated(h) == h <= 0

\* faulty variant: the reset is left out
KeepHealth(h) == h

\* line 143
RespawnHealth(h) == MAX_HEALTH

\* faulty variant: the previous score is not read
FirstCredit(m, attackerId) == 1

\* line 137
CreditedScore(m, attackerId) == MapGetOr0(m, attackerId) + 1

\* faulty variant: the match ends one point early
MatchOverEarly(attackerScore) == attackerScore >= MAX_SCORE - 1

\* line 155
MatchOver(attackerScore) == attackerScore >= MAX_SCORE

\* the handler does not read the socket it runs on: any connected client
\* may send the claim
bulletHit(data) ==
    /\ DOMAIN players # {}
    /\ UNCHANGED <<gameState, timers, now, nextId>>
    /\ bullets' = BulletsAfterHit(bullets, data)
    /\ IF ValidClaim(data)
       THEN LET target == data.hitPlayerId
                h == DamagedHealth(players[target].health)
                attackerScore == CreditedScore(playerScores, data.attackerId)
                scores == MapSet(playerScores, data.attackerId, attackerScore)
                all == DOMAIN players
                removed == Msg("bulletRemoved", all, data.bulletId)
                health1 == Msg("playerHealthUpdate", all,
                               [id |-> target, health |-> h])
            IN /\ grants' = [grants EXCEPT ![data.bulletId] = @ + 1]
               /\ IF Eliminated(h)
                  THEN /\ players' = [players EXCEPT
                                        ![target].health = RespawnHealth(h)]
                       /\ playerScores' = scores
                       /\ out' = << removed, health1,
                                    Msg("scoreUpdate", all, ScoreArray(scores)) >>
                                 \o (IF MatchOver(attackerScore)
                                     THEN << Msg("gameOver", all,
                                                 [winnerId |-> data.attackerId,
                                                  scores |-> ScoreArray(scores)]) >>
                                     ELSE <<>>)
                                 \o << Msg("playerHealthUpdate", all,
                                           [id |-> target,
                                            health |-> RespawnHealth(h)]) >>
                       /\ gameOvers' = IF MatchOver(attackerScore)
                                       THEN [gameOvers EXCEPT
                                               ![data.attackerId] = @ + 1]
                                       ELSE gameOvers
                  ELSE /\ players' = [players EXCEPT ![target].health = h]
                       /\ out' = << removed, health1 >>
                       /\ UNCHANGED <<playerScores, gameOvers>>
       ELSE /\ out' = <<>>
            /\ UNCHANGED <<players, playerScores, grants, gameOvers>>

(* ------------------------------------------------------------------ *)
(* socket.on("disconnect")                                             *)
(* ------------------------------------------------------------------ *)
\* faulty variant: the departure is not broadcast
disconnectQuiet(playerId) ==
    /\ playerId \in DOMAIN players
    /\ LET table == Del(players, playerId)
           count == gameState.playerCount - 1
       IN /\ players' = table
          /\ gameState' = [scores |-> Del(gameState.scores, playerId),
                           playerCount |-> count]
          /\ out' = << Msg("playerCountUpdate", DOMAIN table, count) >>
    /\ UNCHANGED <<bullets, playerScores, timers, now, nextId, grants,
                   gameOvers>>

\* faulty variant: the count is not decremented
disconnectUncounted(playerId) ==
    /\ playerId \in DOMAIN players
    /\ LET table == Del(players, playerId)
           count == gameState.playerCount
       IN /\ players' = table
          /\ gameState' = [scores |-> Del(gameState.scores, playerId),
                           playerCount |-> count]
          /\ out' = << Msg("playerLeft", DOMAIN table, playerId),
                       Msg("playerCountUpdate", DOMAIN table, count) >>
    /\ UNCHANGED <<bullets, playerScores, timers, now, nextId, grants,
                   gameOvers>>

disconnect(playerId) ==
    /\ playerId \in DOMAIN players
    /\ LET table == Del(players, playerId)
           count == gameState.playerCount - 1
       IN /\ players' = table
          /\ gameState' = [scores |-> Del(gameState.scores, playerId),
                           playerCount |-> count]
          /\ out' = << Msg("playerLeft", DOMAIN table, playerId),
                       Msg("playerCountUpdate", DOMAIN table, count) >>
    /\ UNCHANGED <<bullets, playerScores, timers, now, nextId, grants,
                   gameOvers>>

(* ------------------------------------------------------------------ *)
(* The clock                                                           *)
(* ------------------------------------------------------------------ *)
Tick ==
    /\ \E t \in Times : t > now /\ now' = t
    /\ out' = <<>>
    /\ UNCHANGED <<players, bullets, playerScores, gameState, timers, nextId,
                   grants, gameOvers>>
    /\ UNCHANGED clientVars

(* ------------------------------------------------------------------ *)
(* Inputs and specifications                                           *)
(* ------------------------------------------------------------------ *)
\* the createBullet payload of fireBullet; the server reads position and
\* velocity only
CreatePayloads(playerId) ==
    {[id |-> <<playerId, now>>, position |-> MuzzlePosition,
      velocity |-> MuzzleVelocity, owner |-> playerId]}

\* claims name a stored bullet, a bullet already removed whose timer is still
\* pending, or a bullet id the server never stored
\* (checkBulletCollisions sends attackerId: bullet.owner)
ClaimedIds == (DOMAIN bullets) \cup timers \cup {<<1, LastTime>>}

Claim(b, p) == [bulletId |-> b, hitPlayerId |-> p, attackerId |-> b[1]]

\* the server reads attackerId from the payload and checks it against
\* nothing: a claim may name any id, here 0 (the id of no socket) or the id
\* of a socket that has connected
KnownIds == 0..(nextId - 1)

AnyClaim(b, p, a) == [bulletId |-> b, hitPlayerId |-> p, attackerId |-> a]

\* the expiry of a bullet created now falls within the clock readings of the run
ExpiryObservable == now + BULLET_TTL <= LastTime

\* the general specification stops short of eliminations
Shallow(data) ==
    ValidClaim(data) =>
        players[data.hitPlayerId].health > MAX_HEALTH - MaxDamage * HIT_DAMAGE

\* the specifications of the server alone leave the clients out
Join == connection /\ UNCHANGED clientVars

Move ==
    /\ \E p \in SocketIds, d \in MovePayloads : updatePosition(p, d)
    /\ UNCHANGED clientVars

\* at most cap expiry timers are pending at once
TimerFree(playerId, cap) ==
    \/ ServerBulletId(playerId, now) \in timers
    \/ Cardinality(timers) < cap

Fire ==
    /\ ExpiryObservable
    /\ \E p \in SocketIds : \E d \in CreatePayloads(p) :
           TimerFree(p, MaxTimers) /\ createBullet(p, d)
    /\ UNCHANGED clientVars

\* in a match every player may have a bullet in flight
MatchFire ==
    /\ \E p \in SocketIds : \E d \in CreatePayloads(p) : createBullet(p, d)
    /\ UNCHANGED clientVars

Expire ==
    /\ \E b \in BulletIds : expireBullet(b)
    /\ UNCHANGED clientVars

Hit ==
    /\ \E b \in ClaimedIds, p \in SocketIds :
           Shallow(Claim(b, p)) /\ bulletHit(Claim(b, p))
    /\ UNCHANGED clientVars

Leave ==
    /\ \E p \in SocketIds : disconnect(p)
    /\ UNCHANGED clientVars

Next ==
    \/ Join
    \/ Move
    \/ Fire
    \/ Expire
    \/ Hit
    \/ Leave
    \/ Tick

Spec == Init /\ [][Next]_vars

\* the event loop runs a timer callback that is due, and time passes
Fairness ==
    /\ WF_vars(Tick)
    /\ WF_vars(Expire)

\* the life of a bullet record: the handlers that read or write the bullet
\* table or the set of connected players, and the clock
NextLive ==
    \/ Join
    \/ Fire
    \/ Expire
    \/ Hit
    \/ Leave
    \/ Tick

SpecLive == Init /\ [][NextLive]_vars /\ Fairness

(* The match specifications: clients fire and claim hits until attackers  *)
(* have been credited a number of eliminations; the players concentrate   *)
(* their fire on one victim at a time.  The clock stands still: a bullet  *)
(* id is used again once its record is gone, which the handlers cannot    *)
(* tell from a fresh id.                                                  *)
Focused(data) ==
    ValidClaim(data) =>
        \A q \in (DOMAIN players) \ {data.hitPlayerId} :
            players[q].health = MAX_HEALTH

WithinCredit(data, cap) ==
    (ValidClaim(data) /\ Eliminated(DamagedHealth(players[data.hitPlayerId].health)))
        => CreditedScore(playerScores, data.attackerId) <= cap

CappedHit(cap) ==
    /\ \E b \in ClaimedIds, p \in SocketIds :
           /\ Focused(Claim(b, p))
           /\ WithinCredit(Claim(b, p), cap)
           /\ bulletHit(Claim(b, p))
    /\ UNCHANGED clientVars

MatchHit == CappedHit(MatchCredit)

ElimHit == CappedHit(ElimCredit)

NextMatch ==
    \/ Join
    \/ Move
    \/ MatchFire
    \/ MatchHit
    \/ Leave

SpecMatch == Init /\ [][NextMatch]_vars

NextElim ==
    \/ Join
    \/ MatchFire
    \/ ElimHit
    \/ Leave

SpecElim == Init /\ [][NextElim]_vars

\* claims as the server accepts them: the attacker named at will
TrustedHit ==
    /\ \E b \in ClaimedIds, p \in SocketIds, a \in KnownIds :
           /\ Focused(AnyClaim(b, p, a))
           /\ WithinCredit(AnyClaim(b, p, a), ElimCredit)
           /\ bulletHit(AnyClaim(b, p, a))
    /\ UNCHANGED clientVars

NextTrust ==
    \/ Join
    \/ MatchFire
    \/ TrustedHit
    \/ Leave

SpecTrust == Init /\ [][NextTrust]_vars

\* a duel to the end: the players stay until an attacker has won the match
DuelHit == CappedHit(DuelCredit)

NextDuel ==
    \/ Join
    \/ MatchFire
    \/ DuelHit

SpecDuel == Init /\ [][NextDuel]_vars

\* players come and go: a socket that connects after a disconnect has a
\* fresh id
Rejoin == connectionWithin(MaxConns + MaxRejoins) /\ UNCHANGED clientVars

LeaveAny ==
    /\ \E p \in DOMAIN players : disconnect(p)
    /\ UNCHANGED clientVars

MoveAny ==
    /\ \E p \in DOMAIN players, d \in MovePayloads : updatePosition(p, d)
    /\ UNCHANGED clientVars

NextRejoin ==
    \/ Rejoin
    \/ LeaveAny
    \/ MoveAny

SpecRejoin == Init /\ [][NextRejoin]_vars

(* ------------------------------------------------------------------ *)
(* The clients (src/public/game.js) and the sockets                     *)
(* ------------------------------------------------------------------ *)
\* the events whose client handlers read or write the bullet list or the
\* mirror of the remote players (playerMoved moves the mesh of an entry of
\* the mirror, which leaves the entry in place); bulletRemoved is here
\* though game.js has no handler for it
Handled == {"initialize", "playerJoined", "playerMoved", "playerLeft",
            "bulletCreated", "bulletRemoved"}

\* socket.io delivers the messages of a handler to each recipient, in order
Deliver(box, msgs) ==
    [c \in SocketIds |->
        box[c] \o SelectSeq(msgs, LAMBDA m : c \in m.to /\ m.ev \in Handled)]

\* a step of a client runs no handler of the server
NoHandler ==
    /\ out' = <<>>
    /\ UNCHANGED <<players, bullets, playerScores, gameState, timers, now,
                   nextId, grants, gameOvers>>

\* faulty variant: the bullet stays in the list
KeepAt(list, i) == list

\* removeBullet: bullets.splice(bullets.indexOf(bullet), 1)
RemoveAt(list, i) ==
    [j \in 1..(Len(list) - 1) |-> IF j < i THEN list[j] ELSE list[j + 1]]

\* bullets.push(bullet), then the oldest goes when the list is over the cap
Pushed(list, bullet) ==
    LET all == Append(list, bullet)
    IN IF Len(all) > MAX_BULLETS THEN RemoveAt(all, 1) ELSE all

\* `${myPlayerId}-${Date.now()}` on the client
ClientBulletId(myPlayerId, t) == <<myPlayerId, t>>

\* the callback of loader.load in loadCar: car, carBodyHandle and the flag
\* are set; animate() starts once loadCar has resolved
loadCar(c) ==
    /\ ~isReadyToShoot[c]
    /\ isReadyToShoot' = [isReadyToShoot EXCEPT ![c] = TRUE]
    /\ NoHandler
    /\ UNCHANGED <<inbox, uplink, localBullets, otherPlayers, loading, stamps,
                   departed, bulletCooldowns, carControls, angvel, hudVars, ctrlVars>>

\* faulty variant: fireBullet does not test the flag
AlwaysArmed(c) == TRUE

\* line 2165: isReadyToShoot && car && carBodyHandle
Armed(c) == isReadyToShoot[c]

\* bulletCooldowns after fireBullet: the entry of the new bullet is set, and
\* removeBullet(bullets[0]) deletes the entry of the bullet it evicts
CooledAfterPush(cooldowns, list, bullet) ==
    LET all == Append(list, bullet)
        set == Put(cooldowns, bullet.id, now + SELF_HIT_COOLDOWN)
    IN IF Len(all) > MAX_BULLETS THEN Del(set, all[1].id) ELSE set

\* fireBullet on client c: nothing happens before the car is loaded
fireBullet(c) ==
    /\ c \in DOMAIN players
    /\ LET bulletId == ClientBulletId(c, now)
           bullet == [id |-> bulletId, owner |-> c, spawnTime |-> now]
           bulletData == [id |-> bulletId, position |-> MuzzlePosition,
                          velocity |-> MuzzleVelocity, owner |-> c]
       IN IF Armed(c)
          THEN /\ localBullets' = [localBullets EXCEPT ![c] = Pushed(@, bullet)]
               /\ bulletCooldowns' =
                     [bulletCooldowns EXCEPT
                        ![c] = CooledAfterPush(@, localBullets[c], bullet)]
               /\ uplink' = [uplink EXCEPT
                               ![c] = Append(@, Msg("createBullet", {},
                                                    bulletData))]
          ELSE UNCHANGED <<localBullets, bulletCooldowns, uplink>>
    /\ NoHandler
    /\ UNCHANGED <<inbox, otherPlayers, loading, stamps, departed,
                   isReadyToShoot, angvel, hudVars, ctrlVars>>

\* the keydown handler, key ' ' (the key repeats while it is held)
keydown(c) ==
    /\ carControls' = [carControls EXCEPT ![c].space = TRUE]
    /\ fireBullet(c)

\* the keyup handler, key ' '
keyup(c) ==
    /\ carControls[c].space
    /\ carControls' = [carControls EXCEPT ![c].space = FALSE]
    /\ NoHandler
    /\ UNCHANGED <<inbox, uplink, localBullets, otherPlayers, loading, stamps,
                   departed, bulletCooldowns, isReadyToShoot, angvel, hudVars, ctrlVars>>

\* createOtherPlayerCar for every id of a set: a temporary box now, the car
\* model when loader.load calls back
WithCars(mirror, ids) ==
    [x \in (DOMAIN mirror) \cup ids |->
        IF x \in ids THEN "temporary" ELSE mirror[x]]

\* scoreData.forEach of the scoreUpdate handler: the value left in playerScore
OwnScore(c, scoreData, old) ==
    IF MapHas(scoreData, c) THEN MapGetOr0(scoreData, c) ELSE old

\* scoreData.forEach of the scoreUpdate handler: the value left in
\* otherPlayerScore, the score of the last entry of another id
OtherScore(c, scoreData, old) ==
    LET others == SelectSeq(scoreData, LAMBDA e : e.id # c)
    IN IF others = <<>> THEN old ELSE others[Len(others)].score

\* faulty variant: the owner of the bullet is not tested
AnyCreated(c, m) == m.ev = "bulletCreated"

\* lines 1508-1513: a bulletCreated of another player's bullet
Foreign(c, m) == m.ev = "bulletCreated" /\ m.data.owner # c

\* the socket handlers of client c, run on the oldest message not yet handled
receive(c) ==
    /\ c \in DOMAIN players
    /\ inbox[c] # <<>>
    /\ LET m == Head(inbox[c])
           joined == IF m.ev = "initialize"
                     THEN (DOMAIN m.data.players) \ {c}
                     ELSE IF m.ev = "playerJoined" /\ m.data.id # c
                          THEN {m.data.id}
                          ELSE {}
           created == Foreign(c, m)
       IN /\ inbox' = [inbox EXCEPT ![c] = Tail(@)]
          /\ otherPlayers' =
                [otherPlayers EXCEPT
                   ![c] = IF m.ev = "playerLeft" /\ m.data \in DOMAIN @
                          THEN Del(@, m.data)
                          ELSE WithCars(@, joined)]
          /\ loading' = [loading EXCEPT ![c] = @ \cup joined]
          /\ localBullets' =
                [localBullets EXCEPT
                   ![c] = IF created
                          THEN Append(@, [id |-> m.data.id,
                                          owner |-> m.data.owner,
                                          spawnTime |-> now])
                          ELSE @]
          /\ bulletCooldowns' =
                [bulletCooldowns EXCEPT
                   ![c] = IF created
                          THEN Put(@, m.data.id, now + SELF_HIT_COOLDOWN)
                          ELSE @]
          /\ departed' =
                [departed EXCEPT
                   ![c] = IF m.ev = "playerLeft" THEN @ \cup {m.data} ELSE @]
          /\ playerScore' =
                [playerScore EXCEPT
                   ![c] = IF m.ev = "scoreUpdate"
                          THEN OwnScore(c, m.data, @) ELSE @]
          /\ otherPlayerScore' =
                [otherPlayerScore EXCEPT
                   ![c] = IF m.ev = "scoreUpdate"
                          THEN OtherScore(c, m.data, @) ELSE @]
          /\ resetTimers' =
                [resetTimers EXCEPT
                   ![c] = IF m.ev = "gameOver"
                          THEN @ \cup {now + GAME_RESET_DELAY} ELSE @]
    /\ NoHandler
    /\ UNCHANGED <<uplink, stamps, carVars, ctrlVars>>

\* the setTimeout callback of the gameOver handler
resetScores(c, due) ==
    /\ due \in resetTimers[c]
    /\ now >= due
    /\ resetTimers' = [resetTimers EXCEPT ![c] = @ \ {due}]
    /\ playerScore' = [playerScore EXCEPT ![c] = 0]
    /\ otherPlayerScore' = [otherPlayerScore EXCEPT ![c] = 0]
    /\ NoHandler
    /\ UNCHANGED <<inbox, uplink, localBullets, otherPlayers, loading, stamps,
                   departed, bulletCooldowns, carVars, ctrlVars>>

\* the callback of loader.load in createOtherPlayerCar
loadComplete(c, id) ==
    /\ c \in DOMAIN players
    /\ id \in loading[c]
    /\ loading' = [loading EXCEPT ![c] = @ \ {id}]
    /\ otherPlayers' = [otherPlayers EXCEPT ![c] = Put(@, id, "loaded")]
    /\ NoHandler
    /\ UNCHANGED <<inbox, uplink, localBullets, stamps, departed,
                   bulletCooldowns, carVars, hudVars, ctrlVars>>

\* lines 2601-2602: !cooldownEnd || Date.now() > cooldownEnd
CanHitSelf(cooldowns, bullet) ==
    \/ bullet.id \notin DOMAIN cooldowns
    \/ now > cooldowns[bullet.id]

\* the state of one pass of checkBulletCollisions on client c over a list
PassStart(c) ==
    [list |-> localBullets[c],
     orig |-> [i \in 1..Len(localBullets[c]) |-> i],
     cooldowns |-> bulletCooldowns[c],
     claims |-> <<>>,
     tested |-> {}]

\* bullets.forEach visits index k of the array as it is when it gets there:
\* removeBullet splices the array, so the bullet after a removed one moves
\* to the index just visited.  inside[o] is the set of the players whose
\* boxes hold the bullet that was at index o when the pass began.  The pass
\* tests the box of the local car first, then for (const id in otherPlayers),
\* which visits the ids in the order the players joined, up to the first
\* box that holds the bullet.
RECURSIVE ForEachFrom(_, _, _, _)
ForEachFrom(c, st, k, inside) ==
    IF k > Len(st.list)
    THEN st
    ELSE LET bullet == st.list[k]
             boxes == inside[st.orig[k]]
             local == /\ c \in boxes
                      /\ bullet.owner # c \/ CanHitSelf(st.cooldowns, bullet)
             others == boxes \cap DOMAIN otherPlayers[c]
             remote == others # {}
             p == IF local THEN c
                  ELSE CHOOSE id \in others : \A q \in others : id <= q
         IN IF local \/ remote
            THEN ForEachFrom(c,
                    [list |-> RemoveAt(st.list, k),
                     orig |-> RemoveAt(st.orig, k),
                     cooldowns |-> Del(st.cooldowns, bullet.id),
                     claims |-> Append(st.claims,
                                   Msg("bulletHit", {},
                                       [bulletId |-> bullet.id,
                                        hitPlayerId |-> p,
                                        attackerId |-> bullet.owner])),
                     tested |-> st.tested \cup {st.orig[k]}],
                    k + 1, inside)
            ELSE ForEachFrom(c, [st EXCEPT !.tested = @ \cup {st.orig[k]}],
                             k + 1, inside)

\* one call of checkBulletCollisions on client c, from animate()
checkBulletCollisions(c, inside) ==
    /\ c \in DOMAIN players
    /\ isReadyToShoot[c]
    /\ LET pass == ForEachFrom(c, PassStart(c), 1, inside)
       IN /\ uplink' = [uplink EXCEPT ![c] = @ \o pass.claims]
          /\ localBullets' = [localBullets EXCEPT ![c] = pass.list]
          /\ bulletCooldowns' = [bulletCooldowns EXCEPT ![c] = pass.cooldowns]
    /\ NoHandler
    /\ UNCHANGED <<inbox, otherPlayers, loading, stamps, departed, carVars,
                   hudVars, ctrlVars>>

\* the bullets of a list that are not older than BULLET_LIFETIME
Young(list) ==
    SelectSeq(list, LAMBDA bullet : ~(now - bullet.spawnTime > BULLET_LIFETIME))

\* the cooldown entries left when removeBullet has run on the bullets too old
CooledYoung(cooldowns, list) ==
    [id \in (DOMAIN cooldowns) \
              {list[i].id : i \in {j \in 1..Len(list) :
                  now - list[j].spawnTime > BULLET_LIFETIME}} |->
        cooldowns[id]]

\* updateMeshPositionsFromPhysics on client c removes the bullets too old
updateBullets(c) ==
    /\ c \in DOMAIN players
    /\ isReadyToShoot[c]
    /\ Young(localBullets[c]) # localBullets[c]
    /\ localBullets' = [localBullets EXCEPT ![c] = Young(@)]
    /\ bulletCooldowns' =
          [bulletCooldowns EXCEPT ![c] = CooledYoung(@, localBullets[c])]
    /\ NoHandler
    /\ UNCHANGED <<inbox, uplink, otherPlayers, loading, stamps, departed,
                   carVars, hudVars, ctrlVars>>

\* the bullets the loop of updateMeshPositionsFromPhysics removes: those
\* older than BULLET_LIFETIME and those of outside, the indices of the
\* bullets with a coordinate beyond 1000
Outdated(list, outside) ==
    {k \in 1..Len(list) :
        now - list[k].spawnTime > BULLET_LIFETIME \/ k \in outside}

\* for (let i = bullets.length - 1; i >= 0; i--) with removeBullet
RECURSIVE SweepFrom(_, _, _)
SweepFrom(list, i, gone) ==
    IF i = 0 THEN list
    ELSE SweepFrom(IF i \in gone THEN RemoveAt(list, i) ELSE list, i - 1, gone)

\* faulty variant: the cooldown entries stay
UnsweptCooldowns(cooldowns, list, gone) == cooldowns

\* bulletCooldowns.delete(bullet.id) of removeBullet for the bullets removed
SweptCooldowns(cooldowns, list, gone) ==
    [id \in (DOMAIN cooldowns) \ {list[k].id : k \in gone} |-> cooldowns[id]]

\* the bullet loop of updateMeshPositionsFromPhysics on client c, from
\* animate()
updateMeshPositionsFromPhysics(c, outside) ==
    /\ c \in DOMAIN players
    /\ isReadyToShoot[c]
    /\ LET gone == Outdated(localBullets[c], outside)
       IN /\ localBullets' =
                [localBullets EXCEPT ![c] = SweepFrom(@, Len(@), gone)]
          /\ bulletCooldowns' =
                [bulletCooldowns EXCEPT
                   ![c] = SweptCooldowns(@, localBullets[c], gone)]
    /\ NoHandler
    /\ UNCHANGED <<inbox, uplink, otherPlayers, loading, stamps, departed,
                   carVars, hudVars, ctrlVars>>

\* no handler leaves more than MaxInbox messages waiting at a client
Roomy == \A c \in SocketIds : Len(inbox'[c]) <= MaxInbox

\* the state of a client whose page is closed
Closed(f, c, v) == [f EXCEPT ![c] = v]

\* what a handler of the server leaves alone on every client
atClients == <<localBullets, otherPlayers, loading, departed, bulletCooldowns,
               carVars, hudVars, ctrlVars>>

\* a browser connects
Joined ==
    /\ connection
    /\ inbox' = Deliver(inbox, out')
    /\ Roomy
    /\ UNCHANGED <<uplink, stamps, atClients>>

\* a browser connects once its car is loaded
JoinedLoaded ==
    /\ nextId <= MaxConns
    /\ isReadyToShoot[nextId]
    /\ Joined

\* a browser closes its page
Left ==
    \E p \in SocketIds :
        /\ disconnect(p)
        /\ inbox' = Closed(Deliver(inbox, out'), p, <<>>)
        /\ Roomy
        /\ uplink' = Closed(uplink, p, <<>>)
        /\ localBullets' = Closed(localBullets, p, <<>>)
        /\ otherPlayers' = Closed(otherPlayers, p, EmptyObj)
        /\ loading' = Closed(loading, p, {})
        /\ departed' = Closed(departed, p, {})
        /\ bulletCooldowns' = Closed(bulletCooldowns, p, EmptyObj)
        /\ isReadyToShoot' = Closed(isReadyToShoot, p, FALSE)
        /\ carControls' = Closed(carControls, p, [space |-> FALSE])
        /\ angvel' = Closed(angvel, p, [x |-> 0, y |-> 0, z |-> 0])
        /\ playerScore' = Closed(playerScore, p, 0)
        /\ otherPlayerScore' = Closed(otherPlayerScore, p, 0)
        /\ resetTimers' = Closed(resetTimers, p, {})
        /\ UNCHANGED <<stamps, ctrlVars>>

\* the server handles the oldest event a client emitted
Served ==
    \E c \in DOMAIN players :
        /\ uplink[c] # <<>>
        /\ uplink' = [uplink EXCEPT ![c] = Tail(@)]
        /\ LET e == Head(uplink[c])
           IN \/ /\ e.ev = "createBullet"
                 /\ createBullet(c, e.data)
                 /\ stamps' = Put(stamps, ServerBulletId(c, now), e.data.id)
              \/ /\ e.ev = "bulletHit"
                 /\ Shallow(e.data)
                 /\ bulletHit(e.data)
                 /\ stamps' = IF ValidClaim(e.data)
                              THEN Del(stamps, e.data.bulletId)
                              ELSE stamps
        /\ inbox' = Deliver(inbox, out')
        /\ Roomy
        /\ UNCHANGED atClients

\* a client reports its position
Moved ==
    \E p \in SocketIds, d \in MovePayloads :
        /\ updatePosition(p, d)
        /\ inbox' = Deliver(inbox, out')
        /\ Roomy
        /\ UNCHANGED <<uplink, stamps, atClients>>

\* an expiry timer fires
Expired ==
    \E b \in BulletIds :
        /\ expireBullet(b)
        /\ stamps' = Del(stamps, b)
        /\ inbox' = Deliver(inbox, out')
        /\ Roomy
        /\ UNCHANGED <<uplink, atClients>>

\* the createBullet events in flight
Fresh == {c \in SocketIds : \E i \in 1..Len(uplink[c]) :
                                uplink[c][i].ev = "createBullet"}

\* the clients that fire in the client specification
Shooters == 1..MaxShooters

\* a client fires while it holds fewer than MaxLocal bullets, fewer than
\* MaxFlight of its events are in flight and fewer than MaxShots bullets
\* are in flight or awaiting expiry
Shoot ==
    \E c \in Shooters :
        /\ ExpiryObservable
        /\ Cardinality(Fresh) + Cardinality(timers) < MaxShots
        /\ Len(localBullets[c]) < MaxLocal
        /\ Len(uplink[c]) < MaxFlight
        /\ keydown(c)

Receive == \E c \in SocketIds : receive(c)

Loaded == \E c \in SocketIds, id \in SocketIds : loadComplete(c, id)

LoadCar == \E c \in SocketIds : loadCar(c)

\* a pass that finds one bullet inside the box of a player
OneHit(c, i, p) ==
    [k \in 1..Len(localBullets[c]) |-> IF k = i THEN {p} ELSE {}]

Collide ==
    \E c \in SocketIds, p \in SocketIds :
        \E i \in 1..Len(localBullets[c]) :
            /\ Len(uplink[c]) < MaxFlight
            /\ checkBulletCollisions(c, OneHit(c, i, p))

Age == \E c \in SocketIds : updateBullets(c)

\* the clients' bullets over time: browsers connect and fire, the server
\* stores and expires the records, and the copies age
NextClient ==
    \/ LoadCar
    \/ JoinedLoaded
    \/ Shoot
    \/ Served
    \/ Expired
    \/ Receive
    \/ Age
    \/ Tick

SpecClient == Init /\ [][NextClient]_vars

\* no bullet is on its way to the server or to a client
Settled ==
    /\ Fresh = {}
    /\ \A c \in SocketIds : \A i \in 1..Len(inbox[c]) :
           inbox[c][i].ev # "bulletCreated"

\* a client fires once the last shot has reached every client and while
\* every client holds fewer than MaxLocal bullets
Volley ==
    \E c \in Shooters :
        /\ Settled
        /\ \A p \in SocketIds : Len(localBullets[p]) < MaxLocal
        /\ Len(uplink[c]) < MaxFlight
        /\ keydown(c)

\* the clients' hit claims: browsers connect and fire, every client tests
\* its copies against the cars and the server resolves the claims; the
\* clock stands still
NextCollide ==
    \/ LoadCar
    \/ JoinedLoaded
    \/ Volley
    \/ Served
    \/ Receive
    \/ Collide

SpecCollide == Init /\ [][NextCollide]_vars

\* a pass that finds every bullet inside the boxes of the players of a set
\* (cars side by side)
AllIn(c, boxes) == [k \in 1..Len(localBullets[c]) |-> boxes]

\* what a pass of client c may find
HitPatterns(c) ==
    {OneHit(c, i, p) : i \in 1..Len(localBullets[c]), p \in SocketIds}
        \cup {AllIn(c, boxes) : boxes \in SUBSET SocketIds}

\* a client runs a pass while the server has handled what it emitted
Strike ==
    \E c \in SocketIds :
        /\ localBullets[c] # <<>>
        /\ uplink[c] = <<>>
        /\ \E inside \in HitPatterns(c) : checkBulletCollisions(c, inside)

\* the server handles the createBullet event a client emitted
ShotServed ==
    \E c \in DOMAIN players :
        /\ uplink[c] # <<>>
        /\ Head(uplink[c]).ev = "createBullet"
        /\ uplink' = [uplink EXCEPT ![c] = Tail(@)]
        /\ createBullet(c, Head(uplink[c]).data)
        /\ stamps' = Put(stamps, ServerBulletId(c, now), Head(uplink[c]).data.id)
        /\ inbox' = Deliver(inbox, out')
        /\ Roomy
        /\ UNCHANGED atClients

\* every client has handled the messages sent to it
Quiet == \A c \in SocketIds : inbox[c] = <<>>

QuietVolley == Quiet /\ Volley /\ \A c \in SocketIds : uplink[c] = <<>>

QuietStrike == Quiet /\ Strike

\* the hit claims of passes that find bullets in several boxes at once, up
\* to the moment the server handles the first claim; the clock stands still,
\* and a client fires or runs a pass once the clients have handled what was
\* sent to them
NextClaim ==
    \/ LoadCar
    \/ JoinedLoaded
    \/ QuietVolley
    \/ ShotServed
    \/ Receive
    \/ QuietStrike

SpecClaim == Init /\ [][NextClaim]_vars

\* no client holds more than MaxLocal bullets
Calm == \A c \in SocketIds : Len(localBullets[c]) <= MaxLocal

\* every browser has connected and loaded its car, and no event is on its
\* way to the server or to a client
Staged ==
    /\ DOMAIN players = SocketIds
    /\ \A c \in SocketIds : isReadyToShoot[c] /\ uplink[c] = <<>>
    /\ Quiet

\* a client fires while the lists are short and the server has seen fewer
\* than MaxShots bullet ids; a client whose bullets are the only ones, the
\* oldest of them from an earlier clock reading, holds the fire key down
\* until a client holds more than MAX_BULLETS bullets
Burst ==
    \E c \in Shooters :
        /\ Staged
        /\ \A p \in SocketIds : Len(localBullets[p]) <= MAX_BULLETS
        /\ \/ /\ \A p \in SocketIds : Len(localBullets[p]) < MaxLocal
              /\ Cardinality(DOMAIN bullets) < MaxShots
           \/ \A p \in SocketIds : \A k \in 1..Len(localBullets[p]) :
                  /\ localBullets[p][k].owner = c
                  /\ localBullets[p][k].spawnTime < now <=> k = 1
        /\ keydown(c)

\* the other clients hold the same bullets
Level(c) ==
    \A p \in SocketIds \ {c}, q \in SocketIds \ {c} :
        localBullets[p] = localBullets[q]

\* a pass of the hit test of a client finds bullets inside cars
CalmStrike ==
    /\ Calm
    /\ Staged
    /\ \E c \in SocketIds :
           /\ Level(c)
           /\ localBullets[c] # <<>>
           /\ \E inside \in HitPatterns(c) : checkBulletCollisions(c, inside)

\* a frame removes the bullets too old and the oldest bullet when it has
\* left the arena
Sweep ==
    /\ Calm
    /\ Staged
    /\ \E c \in SocketIds :
           \E outside \in {{}, {1}} :
               /\ Level(c)
               /\ Outdated(localBullets[c], outside) # {}
               /\ updateMeshPositionsFromPhysics(c, outside)

\* the clock advances while bullets are in the air
CalmTick ==
    /\ Calm
    /\ Staged
    /\ \E c \in SocketIds : localBullets[c] # <<>>
    /\ Tick

\* the life of the cooldown table: bullets are fired, copied, claimed, aged
\* out, lost beyond the arena and evicted at the cap
NextCooldown ==
    \/ LoadCar
    \/ JoinedLoaded
    \/ Burst
    \/ ShotServed
    \/ Receive
    \/ CalmStrike
    \/ Sweep
    \/ CalmTick

SpecCooldown == Init /\ [][NextCooldown]_vars

\* the fire key is held down (nothing limits the rate of fire) until a
\* client holds more than MAX_BULLETS bullets
Rapid ==
    \E c \in Shooters :
        /\ \A p \in SocketIds : Len(localBullets[p]) <= MAX_BULLETS
        /\ Len(uplink[c]) < MaxFlight
        /\ keydown(c)

\* a barrage: more shots than the cap within the lifetime of a bullet; the
\* clock stands still
NextBarrage ==
    \/ LoadCar
    \/ JoinedLoaded
    \/ Rapid
    \/ Served
    \/ Receive

SpecBarrage == Init /\ [][NextBarrage]_vars

(* ------------------------------------------------------------------ *)
(* The angular-velocity clamp of updateControls                         *)
(* ------------------------------------------------------------------ *)
(* JavaScript numbers are binary floating-point numbers and every        *)
(* operation rounds its exact result to the nearest of them, a tie to    *)
(* the one with an even significand.  A number of the model is an        *)
(* integer k standing for k / 2^FractionBits, with a significand of      *)
(* Precision bits.                                                       *)
Abs(k) == IF k < 0 THEN 0 - k ELSE k

Max3(a, b, c) ==
    IF a >= b /\ a >= c THEN a ELSE IF b >= c THEN b ELSE c

\* n / d rounded to the nearest integer, a tie to the even one
RoundHalfEven(n, d) ==
    LET q == n \div d
        r == n % d
    IN IF 2 * r < d THEN q
       ELSE IF 2 * r > d THEN q + 1
       ELSE IF q % 2 = 0 THEN q ELSE q + 1

\* the spacing of the floating-point numbers around n / d
RECURSIVE Quantum(_, _, _)
Quantum(n, d, step) ==
    IF n < (2 ^ Precision) * d * step THEN step ELSE Quantum(n, d, 2 * step)

\* the floating-point number nearest to n / d (n >= 0, d > 0)
Fl(n, d) == LET step == Quantum(n, d, 1) IN step * RoundHalfEven(n, d * step)

\* a / b for a, b > 0
FDiv(a, b) == Fl(a * Unit, b)

\* a * b
FMul(a, b) ==
    LET m == Fl(Abs(a) * Abs(b), Unit)
    IN IF (a < 0) = (b < 0) THEN m ELSE 0 - m

\* line 2309: const maxAngularVelocity = 3.0
maxAngularVelocity == 3 * Unit

\* line 2310
Spinning(v) ==
    \/ Abs(v.x) > maxAngularVelocity
    \/ Abs(v.y) > maxAngularVelocity
    \/ Abs(v.z) > maxAngularVelocity

\* lines 2310-2323: the vector the body holds after the clamp
Clamped(v) ==
    IF Spinning(v)
    THEN LET scale == FDiv(maxAngularVelocity,
                           Max3(Abs(v.x), Abs(v.y), Abs(v.z)))
         IN [x |-> FMul(v.x, scale),
             y |-> FMul(v.y, scale),
             z |-> FMul(v.z, scale)]
    ELSE v

\* updateControls on client c, called from animate(): the clamp (the torque
\* impulses that follow act on the body through the physics engine)
updateControls(c) ==
    /\ isReadyToShoot[c]
    /\ angvel' = [angvel EXCEPT ![c] = Clamped(@)]
    /\ NoHandler
    /\ UNCHANGED <<inbox, uplink, localBullets, otherPlayers, loading, stamps,
                   departed, bulletCooldowns, isReadyToShoot, carControls,
                   hudVars, ctrlVars>>

\* the angular velocities the physics engine leaves on an axis
AxisValues == {k * ((3 * Unit) \div 4) : k \in (0 - MaxAxis)..MaxAxis}

\* torque impulses, contacts and the physics step change the angular
\* velocity of the body of the car of client c
physicsStep(c, w) ==
    /\ isReadyToShoot[c]
    /\ angvel' = [angvel EXCEPT ![c] = w]
    /\ NoHandler
    /\ UNCHANGED <<inbox, uplink, localBullets, otherPlayers, loading, stamps,
                   departed, bulletCooldowns, isReadyToShoot, carControls,
                   hudVars, ctrlVars>>

Spin ==
    \E c \in Shooters, x \in AxisValues, y \in AxisValues, z \in AxisValues :
        physicsStep(c, [x |-> x, y |-> y, z |-> z])

Clamp == \E c \in Shooters : updateControls(c)

LoadOwnCar == \E c \in Shooters : loadCar(c)

\* the frame loop of a page whose car spins
NextClamp ==
    \/ LoadOwnCar
    \/ Spin
    \/ Clamp

SpecClamp == Init /\ [][NextClamp]_vars

(* ------------------------------------------------------------------ *)
(* CarController (src/public/game.js, lines 2692-3040)                 *)
(* ------------------------------------------------------------------ *)
\* Date.now() on the page of the controller
DateNow == Epoch + now

\* a + b
FAdd(a, b) ==
    LET n == a + b
    IN IF n < 0 THEN 0 - Fl(0 - n, 1) ELSE Fl(n, 1)

Min2(a, b) == IF a <= b THEN a ELSE b

Max2(a, b) == IF a >= b THEN a ELSE b

\* the literals 0.5, 0.7, 0.3 and 0.95
FrontFactor == FDiv(1, 2)

RearFactor == FDiv(7, 10)

ContactFactor == FDiv(3, 10)

Coasting == FDiv(19, 20)

\* the state the two collision handlers read and write
Controller == [speed |-> car.speed, last |-> lastCollisionTime, log |-> penalties]

\* faulty variant: no debounce
NeverDebounced(st, t) == FALSE

\* lines 2776 and 2902
Debounced(st, t) == t - st.last < COLLISION_DEBOUNCE

\* lines 2779-2783
RayFactor(rayIndex) == IF rayIndex < 3 THEN FrontFactor ELSE RearFactor

\* handleRayCollision(intersect, rayIndex) at time t
handleRayCollision(st, rayIndex, t) ==
    IF Debounced(st, t)
    THEN st
    ELSE [speed |-> FMul(st.speed, RayFactor(rayIndex)),
          last |-> t,
          log |-> Append(st.log, [kind |-> "ray", time |-> t])]

\* handleCollision() at time t
handleCollision(st, t) ==
    IF Debounced(st, t)
    THEN st
    ELSE [speed |-> FMul(st.speed, ContactFactor),
          last |-> t,
          log |-> Append(st.log, [kind |-> "contact", time |-> t])]

\* updateRaycasters: rayDirections.forEach from ray index on; hits are the
\* rays with an intersection nearer than rayLength
RECURSIVE RaysFrom(_, _, _, _)
RaysFrom(st, index, hits, t) ==
    IF index > 5 THEN st
    ELSE RaysFrom(IF index \in hits THEN handleRayCollision(st, index, t) ELSE st,
                  index + 1, hits, t)

updateRaycasters(st, hits, t) == RaysFrom(st, 0, hits, t)

\* faulty variant: reversing has no cap
ReverseUncapped(speed, delta) == FAdd(speed, 0 - FMul(car.acceleration, delta))

\* line 2962
Reverse(speed, delta) ==
    Max2(FAdd(speed, 0 - FMul(car.acceleration, delta)),
         0 - (car.maxSpeed \div 2))

\* lines 2959-2965
Accelerate(speed, delta) ==
    IF keys.w
    THEN Min2(FAdd(speed, FMul(car.acceleration, delta)), car.maxSpeed)
    ELSE IF keys.s
    THEN Reverse(speed, delta)
    ELSE FMul(speed, Coasting)

\* lines 2992-2998: one call of handleCollision for each queued event
RECURSIVE Contacts(_, _, _)
Contacts(st, events, t) ==
    IF events = 0 THEN st ELSE Contacts(handleCollision(st, t), events - 1, t)

\* !car.rigidBodyHandle
Falsy(handle) == handle = NoHandle \/ handle = 0

\* the callback of loader.load in load(): the body has the handle the
\* physics world gave it
load(handle) ==
    /\ ~car.mesh
    /\ car' = [mesh |-> TRUE, rigidBodyHandle |-> handle, speed |-> 0,
               maxSpeed |-> 20 * Unit, acceleration |-> 15 * Unit]
    /\ UNCHANGED <<keys, lastCollisionTime, penalties>>

\* the listeners of setupInput; the keys a and d turn the car and leave the
\* speed alone
ctrlKeydown(k) ==
    /\ keys' = [keys EXCEPT ![k] = TRUE]
    /\ UNCHANGED <<car, lastCollisionTime, penalties>>

ctrlKeyup(k) ==
    /\ keys' = [keys EXCEPT ![k] = FALSE]
    /\ UNCHANGED <<car, lastCollisionTime, penalties>>

\* update(delta) in a frame in which the rays of hits intersect and the
\* event queue holds events collision events
update(delta, hits, events) ==
    /\ car.mesh
    /\ ~Falsy(car.rigidBodyHandle)
    /\ LET probed == updateRaycasters(Controller, hits, DateNow)
           driven == [probed EXCEPT !.speed = Accelerate(@, delta)]
           done == Contacts(driven, events, DateNow)
       IN /\ car' = [car EXCEPT !.speed = done.speed]
          /\ lastCollisionTime' = done.last
          /\ penalties' = done.log
    /\ UNCHANGED keys

\* what the controller leaves alone
offCar == <<inbox, uplink, localBullets, otherPlayers, loading, stamps,
            departed, bulletCooldowns, carVars, hudVars>>

\* the handles of the body of the car: the first body of a world has handle 0
Handles == {0, 1}

\* the frame times, in seconds: 1/60 and 1/2
FrameDeltas == {FDiv(1, 60), FDiv(1, 2)}

\* the sets of rays that intersect in a frame
HitSets == {{}, {1, 4}, {3, 5}}

\* the clock readings of the controller specification, ms after Epoch
CarTimes == {0, COLLISION_DEBOUNCE - 1, COLLISION_DEBOUNCE}

CarLoad ==
    /\ \E h \in Handles : load(h)
    /\ NoHandler
    /\ UNCHANGED offCar

KeyDown ==
    /\ \E k \in {"w", "s"} : ~keys[k] /\ ctrlKeydown(k)
    /\ NoHandler
    /\ UNCHANGED offCar

KeyUp ==
    /\ \E k \in {"w", "s"} : keys[k] /\ ctrlKeyup(k)
    /\ NoHandler
    /\ UNCHANGED offCar

Frame ==
    /\ \E delta \in FrameDeltas, hits \in HitSets, events \in 0..MaxContacts :
           update(delta, hits, events)
    /\ NoHandler
    /\ UNCHANGED offCar

CarTick ==
    /\ \E t \in CarTimes : t > now /\ now' = t
    /\ out' = <<>>
    /\ UNCHANGED <<players, bullets, playerScores, gameState, timers, nextId,
                   grants, gameOvers>>
    /\ UNCHANGED clientVars

NextCar ==
    \/ CarLoad
    \/ KeyDown
    \/ KeyUp
    \/ Frame
    \/ CarTick

SpecCar == Init /\ [][NextCar]_vars

\* the events whose client handlers write the displayed scores
Scoreboard == {"scoreUpdate", "gameOver"}

DeliverOnly(box, msgs, events) ==
    [c \in SocketIds |->
        box[c] \o SelectSeq(msgs, LAMBDA m : c \in m.to /\ m.ev \in events)]

\* what the handlers of the scoreboard leave alone on every client
offBoard == <<uplink, localBullets, otherPlayers, loading, stamps, departed,
              bulletCooldowns, carVars, ctrlVars>>

\* a hit claim is resolved and its score messages go out to the clients
ScoredHit ==
    /\ \E b \in ClaimedIds, p \in SocketIds :
           /\ Focused(Claim(b, p))
           /\ WithinCredit(Claim(b, p), DuelCredit)
           /\ bulletHit(Claim(b, p))
    /\ inbox' = DeliverOnly(inbox, out', Scoreboard)
    /\ Roomy
    /\ UNCHANGED <<offBoard, hudVars>>

ResetDue == \E c \in SocketIds, due \in Times : resetScores(c, due)

\* the scoreboard: a match is played, the clients display the scores the
\* server broadcasts, and the timers set at gameOver run
NextScore ==
    \/ Join
    \/ Fire
    \/ ScoredHit
    \/ Receive
    \/ ResetDue
    \/ Tick

SpecScore == Init /\ [][NextScore]_vars

\* a key press while no shot is on its way and every client holds fewer
\* than MaxLocal bullets
Press ==
    \E c \in SocketIds :
        /\ Settled
        /\ \A p \in SocketIds : Len(localBullets[p]) < MaxLocal
        /\ Len(uplink[c]) < MaxFlight
        /\ keydown(c)

Release == \E c \in SocketIds : keyup(c)

\* the start of a page: the socket connects while the car loads, and the
\* player may press the fire key at any time
NextFire ==
    \/ LoadCar
    \/ Joined
    \/ Press
    \/ Release
    \/ Served
    \/ Receive

SpecFire == Init /\ [][NextFire]_vars

\* the clients' mirrors of the remote players: browsers come and go and the
\* car models load
NextMirror ==
    \/ Joined
    \/ Left
    \/ Moved
    \/ Receive
    \/ Loaded

SpecMirror == Init /\ [][NextMirror]_vars

(* ================================================================== *)
(* Properties                                                          *)
(* ================================================================== *)
\* the events of the messages the last handler emitted
Events == [i \in 1..Len(out) |-> out[i].ev]

Offline == (1..(nextId - 1)) \ DOMAIN players

\* C1: every projectile record is granted at most one hit claim (one health
\* decrement); a record still in the table has been granted none, so the
\* first claim with a connected target wins and later claims find no record.
C1_OneGrantPerRecord ==
    \A b \in DOMAIN grants :
        /\ grants[b] <= 1
        /\ b \in DOMAIN bullets => grants[b] = 0

C1_Witness ==
    \E b \in DOMAIN grants :
        /\ grants[b] = 1
        /\ b \notin DOMAIN bullets
        /\ out = <<>>

\* C2: a bulletHit claim whose bulletId is not in the bullet table changes no
\* health, no score, no bullet record, and emits no message.
C2_UnknownBulletNoOp ==
    [][\A cb \in ClaimedIds, cp \in SocketIds : LET d == Claim(cb, cp) IN
          (bulletHit(d) /\ d.bulletId \notin DOMAIN bullets) =>
              /\ UNCHANGED <<players, playerScores, gameState, bullets>>
              /\ out' = <<>>]_vars

C2_Witness ==
    /\ \E p \in DOMAIN players : players[p].health < MAX_HEALTH
    /\ \E b \in timers : b \notin DOMAIN bullets
    /\ out = <<>>

\* C3 (as claimed): gameOver naming an attacker is broadcast at most once,
\* and exactly once when the attacker has been credited MAX_SCORE.
C3_GameOverOnce ==
    \A a \in AttackerIds :
        /\ gameOvers[a] <= 1
        /\ MapGetOr0(playerScores, a) >= MAX_SCORE => gameOvers[a] = 1

\* C4 (as claimed): when gameOver is broadcast, the named winner holds
\* exactly MAX_SCORE and no other player has reached MAX_SCORE.
C4_SoleWinner ==
    \A i \in 1..Len(out) :
        out[i].ev = "gameOver" =>
            /\ MapGetOr0(playerScores, out[i].data.winnerId) = MAX_SCORE
            /\ \A a \in AttackerIds \ {out[i].data.winnerId} :
                   MapGetOr0(playerScores, a) < MAX_SCORE

\* C5: after every handler step every player in the table has
\* 0 <= health <= MAX_HEALTH, and a player whose health a hit brought to 0
\* or below has MAX_HEALTH at the end of that step.
C5_HealthInRange ==
    /\ \A p \in DOMAIN players :
           players[p].health >= 0 /\ players[p].health <= MAX_HEALTH
    /\ \A i \in 1..Len(out) :
           (out[i].ev = "playerHealthUpdate" /\ out[i].data.health <= 0) =>
               players[out[i].data.id].health = MAX_HEALTH

C5_Witness ==
    \E i \in 1..Len(out) :
        /\ out[i].ev = "playerHealthUpdate"
        /\ out[i].data.health <= 0
        /\ players[out[i].data.id].health = MAX_HEALTH

\* C6 (as claimed): a hit claim naming the owner of a projectile as target,
\* made less than 500 ms after the projectile was spawned, leaves the
\* owner's health unchanged.
C6_SelfHitCooldown ==
    [][\A cb \in ClaimedIds, cp \in SocketIds : LET d == Claim(cb, cp) IN
          (/\ bulletHit(d)
           /\ ValidClaim(d)
           /\ d.hitPlayerId = bullets[d.bulletId].owner
           /\ now - d.bulletId[2] < SELF_HIT_COOLDOWN) =>
              players'[d.hitPlayerId].health = players[d.hitPlayerId].health]_vars

\* C7: a valid hit claim deletes the bullet record and nothing else from the
\* bullet table, broadcasts bulletRemoved(id) and then playerHealthUpdate
\* with the target's health less 10 to all clients, leaves the target with
\* that health unless it is eliminated, and changes no other player's health.
C7_ValidHit ==
    [][\A cb \in ClaimedIds, cp \in SocketIds : LET d == Claim(cb, cp) IN
          (bulletHit(d) /\ ValidClaim(d)) =>
              LET target == d.hitPlayerId
                  h == players[target].health - 10
              IN /\ DOMAIN bullets' = (DOMAIN bullets) \ {d.bulletId}
                 /\ \A b \in DOMAIN bullets' : bullets'[b] = bullets[b]
                 /\ Len(out') >= 2
                 /\ out'[1] = Msg("bulletRemoved", DOMAIN players, d.bulletId)
                 /\ out'[2] = Msg("playerHealthUpdate", DOMAIN players,
                                  [id |-> target, health |-> h])
                 /\ h > 0 => players'[target].health = h
                 /\ DOMAIN players' = DOMAIN players
                 /\ \A q \in (DOMAIN players) \ {target} :
                        players'[q].health = players[q].health]_vars

C7_Witness ==
    /\ Events = <<"bulletRemoved", "playerHealthUpdate">>
    /\ \E p, q \in DOMAIN players :
           /\ players[p].health < MAX_HEALTH - 10
           /\ out[2].data.id = p
           /\ q # p

\* C8: a valid hit that brings the target's health to 0 or below raises the
\* attacker's score by exactly 1, changes no other score, leaves the target
\* with MAX_HEALTH, and broadcasts to all clients a scoreUpdate that carries
\* every entry of the score table.
C8_Elimination ==
    [][\A cb \in ClaimedIds, cp \in SocketIds : LET d == Claim(cb, cp) IN
          (/\ bulletHit(d)
           /\ ValidClaim(d)
           /\ players[d.hitPlayerId].health - 10 <= 0) =>
              /\ MapHas(playerScores', d.attackerId)
              /\ MapGetOr0(playerScores', d.attackerId)
                     = MapGetOr0(playerScores, d.attackerId) + 1
              /\ \A a \in AttackerIds \ {d.attackerId} :
                     /\ MapHas(playerScores', a) <=> MapHas(playerScores, a)
                     /\ MapGetOr0(playerScores', a) = MapGetOr0(playerScores, a)
              /\ players'[d.hitPlayerId].health = MAX_HEALTH
              /\ \E i \in 1..Len(out') :
                     /\ out'[i].ev = "scoreUpdate"
                     /\ out'[i].to = DOMAIN players
                     /\ Len(out'[i].data) = Len(playerScores')
                     /\ \A a \in AttackerIds :
                            MapHas(playerScores', a) =>
                                \E j \in 1..Len(out'[i].data) :
                                    out'[i].data[j] =
                                        [id |-> a,
                                         score |-> MapGetOr0(playerScores', a)]]_vars

C8_Witness ==
    /\ \E i \in 1..Len(out) : out[i].ev = "scoreUpdate"
    /\ \E a \in AttackerIds : MapGetOr0(playerScores, a) = 2

\* C9 (as claimed): at the end of an eliminating bulletHit step the target's
\* position is the spawn-table entry of the slot it got at connect time.
C9_RespawnAtSlot ==
    [][\A cb \in ClaimedIds, cp \in SocketIds : LET d == Claim(cb, cp) IN
          (/\ bulletHit(d)
           /\ ValidClaim(d)
           /\ players[d.hitPlayerId].health - 10 <= 0) =>
              players'[d.hitPlayerId].position =
                  SPAWN_POSITIONS[players[d.hitPlayerId].spawnIndex + 1]]_vars

\* C10: a hit claim whose target is not in the player table changes no
\* health, no score and no bullet record and emits no message; a record it
\* names stays in the table with its expiry timer pending.
C10_UnknownTargetNoOp ==
    [][\A cb \in ClaimedIds, cp \in SocketIds : LET d == Claim(cb, cp) IN
          (bulletHit(d) /\ d.hitPlayerId \notin DOMAIN players) =>
              /\ UNCHANGED <<players, playerScores, gameState, bullets, timers>>
              /\ out' = <<>>]_vars

C10_Witness ==
    /\ DOMAIN players # {}
    /\ Offline # {}
    /\ \E b \in DOMAIN bullets : b \in timers
    /\ out = <<>>

\* C11 (as claimed): every stored projectile record is keyed by the id the
\* firing client holds for its local copy (the id of its createBullet
\* payload), so that a hit claim naming the local copy names the record.
C11_SharedId ==
    \A b \in (DOMAIN bullets) \cap (DOMAIN stamps) : stamps[b] = b

\* C12 (as claimed): the bulletCreated broadcast of a createBullet event
\* carries the id, position, velocity and owner of the event's payload, goes
\* to all clients, and the record is stored under the payload's id.
C12_CreatedEchoesPayload ==
    [][\A c \in SocketIds :
          (/\ uplink[c] # <<>>
           /\ Head(uplink[c]).ev = "createBullet"
           /\ createBullet(c, Head(uplink[c]).data)) =>
              LET d == Head(uplink[c]).data
                  record == [id |-> d.id, position |-> d.position,
                             velocity |-> d.velocity, owner |-> d.owner]
              IN /\ out' = << Msg("bulletCreated", DOMAIN players, record) >>
                 /\ d.id \in DOMAIN bullets'
                 /\ bullets'[d.id] = record]_vars

\* C13 (as claimed): fire events with distinct (owner, spawn timestamp)
\* pairs get distinct client ids, and no createBullet overwrites the live
\* record stored for a different fire event.
C13_NoOverwrite ==
    [][/\ \A c1, c2 \in SocketIds, t1, t2 \in Times :
              <<c1, t1>> # <<c2, t2>> =>
                  ClientBulletId(c1, t1) # ClientBulletId(c2, t2)
       /\ \A c \in SocketIds :
              (/\ uplink[c] # <<>>
               /\ Head(uplink[c]).ev = "createBullet"
               /\ createBullet(c, Head(uplink[c]).data)
               /\ ServerBulletId(c, now) \in DOMAIN bullets) =>
                  stamps[ServerBulletId(c, now)] = Head(uplink[c]).data.id]_vars

\* the places of the bulletRemoved messages naming a bullet id in a list
Removals(msgs, b) ==
    {i \in 1..Len(msgs) : msgs[i].ev = "bulletRemoved" /\ msgs[i].data = b}

C15_MirrorForgets ==
    \A c \in SocketIds : \A p \in departed[c] : p \notin DOMAIN otherPlayers[c]

\* C16: disconnect of a player deletes it, and no other player, from the
\* player table, leaves the other records as they are, and sends playerLeft
\* with its id to every remaining client; a player that has left never is in
\* the table again.
C16_Disconnect ==
    /\ [][\A p \in SocketIds :
             disconnect(p) =>
                 /\ DOMAIN players' = (DOMAIN players) \ {p}
                 /\ \A q \in DOMAIN players' : players'[q] = players[q]
                 /\ \E i \in 1..Len(out') :
                        out'[i] = Msg("playerLeft", (DOMAIN players) \ {p}, p)]_vars
    /\ [][\A p \in Offline : p \notin DOMAIN players']_vars

C16_Witness ==
    /\ Events = <<"playerLeft", "playerCountUpdate">>
    /\ out[1].to # {}
    /\ out[1].to = DOMAIN players
    /\ out[1].data \in Offline

\* C17: after a connection the new player is in the table with health 100 and
\* score 0; initialize goes to it alone and carries its id and the whole
\* player table, itself included; playerJoined with its record goes to every
\* other player in the table and not to it.
C17_Connect ==
    (Len(out) >= 1 /\ out[1].ev = "initialize") =>
        LET id == out[1].data.id
        IN /\ out[1].to = {id}
           /\ id \in DOMAIN players
           /\ players[id].health = 100
           /\ players[id].score = 0
           /\ out[1].data.players = players
           /\ id \in DOMAIN out[1].data.players
           /\ Len(out) >= 2
           /\ out[2] = Msg("playerJoined", (DOMAIN players) \ {id}, players[id])
           /\ \A i \in 1..Len(out) :
                  out[i].ev = "playerJoined" => id \notin out[i].to

C17_Witness ==
    /\ Len(out) >= 2
    /\ out[1].ev = "initialize"
    /\ out[2].to # {}
    /\ \E q \in DOMAIN players : players[q].health < MAX_HEALTH

\* C18 (as claimed): the n-th accepted connection (n = 0, 1, ...) has slot
\* n mod 2; socket ids are given in the order of connection, so player p is
\* connection number p - 1.
C18_RoundRobin ==
    \A p \in DOMAIN players :
        players[p].spawnIndex = (p - 1) % Len(SPAWN_POSITIONS)

\* C19: updatePosition from a connected player sets its position and
\* rotation to the payload's, sends playerMoved with these values to every
\* other player and not to it, and changes no other record, no health, no
\* score and no bullet.
C19_MoveFrame ==
    [][\A p \in SocketIds, d \in MovePayloads :
          updatePosition(p, d) =>
              /\ players'[p].position = d.position
              /\ players'[p].rotation = d.rotation
              /\ Len(out') >= 1
              /\ \A i \in 1..Len(out') :
                     /\ out'[i].ev = "playerMoved"
                     /\ out'[i].to = (DOMAIN players) \ {p}
                     /\ out'[i].data.id = p
                     /\ out'[i].data.position = d.position
                     /\ out'[i].data.rotation = d.rotation
              /\ DOMAIN players' = DOMAIN players
              /\ \A q \in (DOMAIN players) \ {p} : players'[q] = players[q]
              /\ players'[p].health = players[p].health
              /\ players'[p].score = players[p].score
              /\ UNCHANGED <<bullets, playerScores, gameState>>]_vars

C19_Witness ==
    /\ Len(out) >= 1
    /\ out[1].ev = "playerMoved"
    /\ out[1].to # {}
    /\ players[out[1].data.id].position = MovedPosition
    /\ DOMAIN bullets # {}
    /\ \E q \in DOMAIN players : players[q].health < MAX_HEALTH

\* C20 (as claimed): when a client has processed the bulletRemoved message
\* of a projectile, its bullet list holds no bullet with that id.
C20_RemovedLocally ==
    [][\A c \in SocketIds :
          (/\ inbox[c] # <<>>
           /\ Head(inbox[c]).ev = "bulletRemoved"
           /\ receive(c)) =>
              \A i \in 1..Len(localBullets'[c]) :
                  localBullets'[c][i].id # Head(inbox[c]).data]_vars

\* C27 (as claimed): every id of the score table that scoreUpdate and
\* gameOver broadcast is the id of a player in the player table.
C27_ScoresOfConnected ==
    \A i \in 1..Len(out) :
        out[i].ev = "scoreUpdate" =>
            \A j \in 1..Len(out[i].data) : out[i].data[j].id \in DOMAIN players

\* C23: the server never resets or lowers a score: every entry of the score
\* table is still in the table after any handler, with a score that is not
\* smaller, also once gameOver has been broadcast.
C23_ScoresNeverDecrease ==
    [][\A i \in 1..Len(playerScores) :
          /\ MapHas(playerScores', playerScores[i].id)
          /\ MapGetOr0(playerScores', playerScores[i].id)
                 >= playerScores[i].score]_vars

\* gameOver has been broadcast, another handler has run since and the
\* winner still has the winning score
C23_Witness ==
    \E a \in SocketIds :
        /\ gameOvers[a] >= 1
        /\ MapGetOr0(playerScores, a) >= MAX_SCORE
        /\ out # <<>>
        /\ \A i \in 1..Len(out) : out[i].ev # "gameOver"

\* C30: the hit that brings a target to zero health or below broadcasts, in
\* this order, bulletRemoved, playerHealthUpdate with the health at or below
\* zero, scoreUpdate, gameOver (only when the winner's score in that
\* scoreUpdate has reached MAX_SCORE) and playerHealthUpdate with
\* MAX_HEALTH for the same target; no other handler broadcasts scoreUpdate
\* or gameOver.
C30_EliminationOrder ==
    LET n == Len(out)
        scored == \E i \in 1..n : out[i].ev \in {"scoreUpdate", "gameOver"}
        zeroed == \E i \in 1..n : /\ out[i].ev = "playerHealthUpdate"
                                  /\ out[i].data.health <= 0
    IN (scored \/ zeroed) =>
          /\ n \in {4, 5}
          /\ Events[1] = "bulletRemoved"
          /\ Events[2] = "playerHealthUpdate"
          /\ out[2].data.health <= 0
          /\ Events[3] = "scoreUpdate"
          /\ Events[n] = "playerHealthUpdate"
          /\ out[n].data.id = out[2].data.id
          /\ out[n].data.health = MAX_HEALTH
          /\ out[3].data = ScoreArray(playerScores)
          /\ n = 5 =>
                /\ Events[4] = "gameOver"
                /\ out[4].data.scores = out[3].data
                /\ MapGetOr0(out[3].data, out[4].data.winnerId) >= MAX_SCORE

\* the hit that ends a match: all five messages
C30_Witness ==
    /\ Len(out) = 5
    /\ out[4].ev = "gameOver"
    /\ out[2].data.health <= 0
    /\ out[5].data.health = MAX_HEALTH

Unvisited(c, inside) ==
    LET pass == ForEachFrom(c, PassStart(c), 1, inside)
    IN {pass.orig[k] : k \in 1..Len(pass.orig)} \ pass.tested

\* C22 (as claimed): a pass of checkBulletCollisions tests every bullet that
\* is in the list when the pass begins and that the pass does not remove,
\* also when the pass removes other bullets.
C22_EveryBulletTested ==
    [][\A c \in SocketIds, p \in SocketIds :
          \A i \in 1..Len(localBullets[c]) :
              checkBulletCollisions(c, OneHit(c, i, p)) =>
                  Unvisited(c, OneHit(c, i, p)) = {}]_vars

\* C29 (as claimed): a pass of checkBulletCollisions on the client that
\* fired a bullet claims no hit of that bullet on the local player unless
\* the clock is past the spawn time of the bullet plus 500 ms.
C29_NoEarlySelfHit ==
    [][\A c \in SocketIds, p \in SocketIds :
          \A i \in 1..Len(localBullets[c]) :
              checkBulletCollisions(c, OneHit(c, i, p)) =>
                  \A j \in (Len(uplink[c]) + 1)..Len(uplink'[c]) :
                      LET e == uplink'[c][j].data
                      IN (e.hitPlayerId = c /\ e.attackerId = c) =>
                            \A k \in 1..Len(localBullets[c]) :
                                (/\ localBullets[c][k].id = e.bulletId
                                 /\ localBullets[c][k].owner = c) =>
                                    now > localBullets[c][k].spawnTime
                                              + SELF_HIT_COOLDOWN]_vars

\* C24: a press of the fire key before loadCar has set isReadyToShoot (with
\* car and carBodyHandle) emits no createBullet and creates no local bullet
\* and no cooldown entry.
C24_NoFireBeforeReady ==
    [][\A c \in SocketIds :
          (keydown(c) /\ ~isReadyToShoot[c]) =>
              UNCHANGED <<uplink, localBullets, bulletCooldowns>>]_vars

\* a connected client has pressed the fire key before its car was loaded
\* and holds no bullet, while a client whose car is loaded has fired
C24_Witness ==
    \E c, d \in DOMAIN players :
        /\ ~isReadyToShoot[c]
        /\ carControls[c].space
        /\ localBullets[c] = <<>>
        /\ uplink[c] = <<>>
        /\ bulletCooldowns[c] = EmptyObj
        /\ isReadyToShoot[d]
        /\ \E i \in 1..Len(localBullets[d]) : localBullets[d][i].owner = d

\* C21 (as claimed): no client ever holds more than MAX_BULLETS bullets in
\* its list, whether a bullet comes from fireBullet or from the
\* bulletCreated handler.
C21_BulletCap ==
    \A c \in SocketIds : Len(localBullets[c]) <= MAX_BULLETS

\* C28 (as claimed): once a client has handled every score message sent to
\* it and none of its timers is pending, the score it displays as its own
\* is the score the server holds for its id, also after a gameOver.
C28_OwnScoreShown ==
    \A c \in DOMAIN players :
        (inbox[c] = <<>> /\ resetTimers[c] = {}) =>
            playerScore[c] = MapGetOr0(playerScores, c)

\* C25 (as claimed): the clamp of updateControls leaves a vector with every
\* axis within 3.0 as it is, and turns a vector with an axis beyond 3.0
\* into one that points the same way and has every axis within 3.0.
C25_ClampWithinCeiling ==
    [][\A c \in SocketIds :
          updateControls(c) =>
              LET v == angvel[c]
                  w == angvel'[c]
              IN /\ Spinning(v) =>
                       /\ Abs(w.x) <= maxAngularVelocity
                       /\ Abs(w.y) <= maxAngularVelocity
                       /\ Abs(w.z) <= maxAngularVelocity
                       /\ w.x * v.x >= 0 /\ (v.x = 0 => w.x = 0)
                       /\ w.y * v.y >= 0 /\ (v.y = 0 => w.y = 0)
                       /\ w.z * v.z >= 0 /\ (v.z = 0 => w.z = 0)
                 /\ ~Spinning(v) => w = v]_vars

\* C32 (as claimed): whenever exactly two players are connected, they hold
\* different spawn slots.
C32_DistinctSlots ==
    Cardinality(DOMAIN players) = 2 =>
        \A p \in DOMAIN players : \A q \in DOMAIN players :
            p # q => players[p].spawnIndex # players[q].spawnIndex

\* C36: gameState.playerCount is the number of entries of the player table
\* after every connection and every disconnect, and is never negative.
C36_CountIsTableSize ==
    /\ gameState.playerCount = Cardinality(DOMAIN players)
    /\ gameState.playerCount >= 0

\* a player has left while another stays, and connections came after a
\* disconnect
C36_Witness ==
    /\ Events = <<"playerLeft", "playerCountUpdate">>
    /\ out[2].data = 1
    /\ Cardinality(Offline) = 2
    /\ Cardinality(DOMAIN players) = 1

\* C33 (as claimed): the score field of the record of every connected player
\* equals its score in the score table.
C33_RecordScoreIsTableScore ==
    \A p \in DOMAIN players :
        players[p].score = MapGetOr0(playerScores, p)

\* C37 (as claimed): an updatePosition event produces exactly one
\* playerMoved message to each other connected client.
C37_OneMovedPerUpdate ==
    [][\A p \in SocketIds, d \in MovePayloads :
          updatePosition(p, d) =>
              \A c \in (DOMAIN players) \ {p} :
                  Cardinality({i \in 1..Len(out') :
                                  /\ out'[i].ev = "playerMoved"
                                  /\ c \in out'[i].to}) = 1]_vars

\* the times of the penalties of a kind, in the order they were applied
TimesOf(kind) ==
    LET of == SelectSeq(penalties, LAMBDA e : e.kind = kind)
    IN [i \in 1..Len(of) |-> of[i].time]

\* no penalty of the kind was applied less than 500 ms before now
FreeOf(kind) ==
    \A i \in 1..Len(TimesOf(kind)) :
        DateNow - TimesOf(kind)[i] >= COLLISION_DEBOUNCE

\* C38 (as claimed): the two debounces are independent: a frame with a
\* collision event and no contact penalty in the last 500 ms applies a
\* contact penalty whatever the ray penalties were, and a frame with a ray
\* hit and no ray penalty in the last 500 ms applies a ray penalty whatever
\* the contact penalties were.
C38_IndependentDebounce ==
    [][\A delta \in FrameDeltas, hits \in HitSets, events \in 0..MaxContacts :
          update(delta, hits, events) =>
              /\ (events > 0 /\ hits = {} /\ FreeOf("contact")) =>
                     Len(TimesOf("contact")') = Len(TimesOf("contact")) + 1
              /\ (hits # {} /\ FreeOf("ray")) =>
                     Len(TimesOf("ray")') = Len(TimesOf("ray")) + 1]_vars

\* the lowest index of the rays of a set
FirstRay(hits) == CHOOSE i \in hits : \A j \in hits : i <= j

\* C39: two ray-probe penalties are never less than 500 ms apart, and a frame
\* whose ray probe is not debounced multiplies the speed by 0.5 when the
\* first ray that hits is a front ray (index 0-2) and by 0.7 when it is a
\* rear ray (index 3-5), before the keys act on the speed; a debounced probe
\* leaves the speed to the keys alone.
C39_RayDebounce ==
    /\ [](\A i \in 1..Len(TimesOf("ray")) : \A j \in 1..Len(TimesOf("ray")) :
             i < j => TimesOf("ray")[j] - TimesOf("ray")[i] >= COLLISION_DEBOUNCE)
    /\ [][\A delta \in FrameDeltas, hits \in HitSets :
             update(delta, hits, 0) =>
                 LET factor == IF FirstRay(hits) <= 2
                               THEN FDiv(1, 2) ELSE FDiv(7, 10)
                     applied == hits # {} /\ FreeOf("ray") /\ FreeOf("contact")
                     suppressed == hits = {} \/ ~FreeOf("ray")
                 IN /\ applied =>
                        /\ car'.speed = Accelerate(FMul(car.speed, factor), delta)
                        /\ Len(TimesOf("ray")') = Len(TimesOf("ray")) + 1
                    /\ suppressed =>
                        /\ car'.speed = Accelerate(car.speed, delta)
                        /\ TimesOf("ray")' = TimesOf("ray")]_vars

\* a rear ray has slowed the car 500 ms after a front ray did
C39_Witness ==
    /\ Len(TimesOf("ray")) = 2
    /\ TimesOf("ray")[2] - TimesOf("ray")[1] = COLLISION_DEBOUNCE
    /\ car.speed # 0
    /\ now = COLLISION_DEBOUNCE

\* C40: the speed of the car is within [-maxSpeed / 2, maxSpeed] after every
\* update and every penalty.
C40_SpeedInRange ==
    /\ car.speed <= car.maxSpeed
    /\ car.speed >= 0 - (car.maxSpeed \div 2)

\* the car reverses at the cap after penalties of both kinds
C40_Witness ==
    /\ car.mesh
    /\ car.speed = 0 - (car.maxSpeed \div 2)
    /\ TimesOf("ray") # <<>>
    /\ TimesOf("contact") # <<>>

\* C34: when a client handles bulletCreated, a bullet it owns itself
\* leaves its bullet list as it is, and a bullet of another owner adds
\* exactly one copy, with the id and the owner of the message, at the end of
\* the list.
C34_OneCopyPerShot ==
    [][\A c \in SocketIds :
          (receive(c) /\ Head(inbox[c]).ev = "bulletCreated") =>
              LET data == Head(inbox[c]).data
                  before == localBullets[c]
                  after == localBullets'[c]
              IN IF data.owner = c
                 THEN after = before
                 ELSE /\ Len(after) = Len(before) + 1
                      /\ SubSeq(after, 1, Len(before)) = before
                      /\ after[Len(after)].id = data.id
                      /\ after[Len(after)].owner = data.owner]_vars

\* a shot has reached both clients: the shooter holds the copy it made when
\* it fired and nothing more, the other client holds the copy made from the
\* broadcast
C34_Witness ==
    \E c \in DOMAIN players, d \in DOMAIN players :
        /\ c # d
        /\ inbox[c] = <<>>
        /\ inbox[d] = <<>>
        /\ DOMAIN bullets # {}
        /\ Len(localBullets[c]) = 1
        /\ localBullets[c][1].owner = c
        /\ Len(localBullets[d]) = 1
        /\ localBullets[d][1].owner = c
        /\ localBullets[d][1].id \in DOMAIN bullets

\* the number of bullets of a list that have the id
CopiesOf(list, id) == Cardinality({k \in 1..Len(list) : list[k].id = id})

\* the hit claims a step of client c emits
NewClaims(c) ==
    [j \in 1..(Len(uplink'[c]) - Len(uplink[c])) |->
        uplink'[c][Len(uplink[c]) + j].data]

\* C31: a pass of checkBulletCollisions emits one claim for each copy it
\* removes and removes one copy for each claim it emits, in the same step:
\* the copies of an id that leave the list are as many as the claims of that
\* id, a claim names the id and the owner of a copy that was in the list and
\* a player whose box held a bullet, the cooldown entry of a claimed id is
\* gone, and a bullet the pass finds in a box when it tests the first bullet
\* of the list is claimed and removed.
C31_OneClaimPerCopy ==
    [][\A c \in SocketIds : \A inside \in HitPatterns(c) :
          checkBulletCollisions(c, inside) =>
              LET before == localBullets[c]
                  after == localBullets'[c]
                  new == NewClaims(c)
              IN /\ Len(new) = Len(before) - Len(after)
                 /\ \A b \in BulletIds :
                        CopiesOf(before, b) - CopiesOf(after, b) =
                            Cardinality({j \in 1..Len(new) : new[j].bulletId = b})
                 /\ \A j \in 1..Len(new) :
                        /\ \E k \in 1..Len(before) :
                               /\ before[k].id = new[j].bulletId
                               /\ before[k].owner = new[j].attackerId
                               /\ new[j].hitPlayerId \in inside[k]
                        /\ new[j].bulletId \notin DOMAIN bulletCooldowns'[c]
                 /\ (Len(before) >= 1 /\ inside[1] \cap DOMAIN otherPlayers[c] # {}) =>
                        /\ Len(new) >= 1
                        /\ new[1].bulletId = before[1].id]_vars

\* a client that held two copies has claimed a hit of another player's
\* bullet on its own car and holds one copy, with no cooldown entry of the
\* claimed id, while the server still stores the record
C31_Witness ==
    \E c \in DOMAIN players :
        /\ Len(uplink[c]) = 1
        /\ uplink[c][1].ev = "bulletHit"
        /\ uplink[c][1].data.hitPlayerId = c
        /\ uplink[c][1].data.attackerId # c
        /\ uplink[c][1].data.bulletId \in DOMAIN bullets
        /\ uplink[c][1].data.bulletId \notin DOMAIN bulletCooldowns[c]
        /\ Len(localBullets[c]) = 1

\* C35: after every step every key of the cooldown table of a client is
\* the id of a bullet in its list, and when a step takes copies of an id off
\* the list, for whatever reason, the table has no entry of that id after
\* the step.
C35_CooldownsOfLiveBullets ==
    /\ [](\A c \in SocketIds :
             DOMAIN bulletCooldowns[c] \subseteq
                 {localBullets[c][k].id : k \in 1..Len(localBullets[c])})
    /\ [][\A c \in SocketIds : \A b \in BulletIds :
             CopiesOf(localBullets'[c], b) < CopiesOf(localBullets[c], b) =>
                 b \notin DOMAIN bulletCooldowns'[c]]_vars

\* the cap has evicted the oldest bullet of the shooter, fired at an earlier
\* clock reading than the bullets it holds now
C35_Witness ==
    \E c \in DOMAIN players, d \in DOMAIN players :
        /\ Len(localBullets[c]) = MAX_BULLETS
        /\ Len(localBullets[d]) = MAX_BULLETS + 1
        /\ localBullets[d][1].owner = c
        /\ localBullets[d][1].id # localBullets[c][1].id
        /\ localBullets[d][1].id \notin DOMAIN bulletCooldowns[c]
        /\ DOMAIN bulletCooldowns[c] # {}

====
